---------------------------- MODULE Spec2Model ----------------------------
(***************************************************************************)
(* DropTube (src/app.py): a Streamlit script that is re-executed from top  *)
(* to bottom on every browser interaction.  One execution of the script is *)
(* a "run"; the download workflow is the try/except/finally block of the   *)
(* "Download Video" / "Download Audio" buttons; the session history is the *)
(* list st.session_state["history"], which survives across runs.           *)
(*                                                                         *)
(* Strings that the script takes apart are sequences of tokens: a path is  *)
(* <<dir, "/", prefix, title, ".ext">>, a select-box option is             *)
(* <<label, "(size", "MB)">> (the pieces str.split() yields).              *)
(***************************************************************************)
EXTENDS Naturals, Sequences, FiniteSets, TLC

\* Bound of the model: a run may press a download button only while the
\* number of history entries plus the number of files left on disk is
\* below it.
MaxKept == 3

(***************************************************************************)
(* Program data                                                            *)
(***************************************************************************)
VideoFormats == <<"mp4", "webm", "mov", "avi">>
AudioFormats == <<"mp3", "aac", "wav", "ogg">>
DownloadTypes == {"Video", "Audio"}

\* What YouTube(url) may yield (pytube, external): one title, and streams of
\* which two carry the same quality label but differ in size or container.
Titles == {"clip"}
VideoCatalogue ==
    { [itag |-> 22, q |-> "720p", rank |-> 720, subtype |-> "mp4", mb |-> "30.0"],
      [itag |-> 298, q |-> "720p", rank |-> 720, subtype |-> "mp4", mb |-> "25.5"],
      [itag |-> 18, q |-> "360p", rank |-> 360, subtype |-> "mp4", mb |-> "10.0"] }
AudioCatalogue ==
    { [itag |-> 251, q |-> "160kbps", rank |-> 160, subtype |-> "webm", mb |-> "3.6"],
      [itag |-> 140, q |-> "128kbps", rank |-> 128, subtype |-> "mp4", mb |-> "3.1"],
      [itag |-> 171, q |-> "128kbps", rank |-> 128, subtype |-> "webm", mb |-> "2.9"] }
NoStream == [itag |-> 0, q |-> "", rank |-> 0, subtype |-> "", mb |-> ""]

Range(s) == {s[i] : i \in DOMAIN s}

\* yt.streams.filter(...).order_by(attr).desc(): the streams of the kind that
\* the video has, in descending quality (streams of equal quality in either
\* order).
OrderedDesc(cat) ==
    { s \in UNION {[1..n -> cat] : n \in 0..Cardinality(cat)} :
        /\ \A i, j \in DOMAIN s : i < j => s[i] # s[j] /\ s[i].rank >= s[j].rank }

StreamLists(kind) ==
    IF kind = "Video" THEN OrderedDesc(VideoCatalogue) ELSE OrderedDesc(AudioCatalogue)

FormatsOf(kind) ==
    IF kind = "Video" THEN Range(VideoFormats) ELSE Range(AudioFormats)

\* `if streams:` -- a StreamQuery is truthy when it is not empty.
TruthyAlways(streams) == TRUE
Truthy(streams) == streams # <<>>

\* f"{stream.resolution} ({size} MB)" as the tokens str.split() yields.
OptionOf(stream) == <<stream.q, "(" \o stream.mb, "MB)">>
Options(streams) == [i \in DOMAIN streams |-> OptionOf(streams[i])]

\* selected.split()[0]
SelectedLabel(selected) == selected[1]

\* streams.filter(res=label) / streams.filter(abr=label)
FilterLabel(streams, label) == SelectSeq(streams, LAMBDA s : s.q = label)

\* StreamQuery.first(): the first element, or None.
First(streams) == IF streams = <<>> THEN NoStream ELSE streams[1]

(***************************************************************************)
(* Paths and local storage                                                 *)
(***************************************************************************)
Unbound == <<>>
Cwd == <<"/app", "/">>
Dot(ext) == "." \o ext

\* stream.download(filename_prefix=...): <cwd>/<prefix><title>.<subtype>
PrefixOf(kind) == IF kind = "Video" THEN <<>> ELSE <<"AUDIO_">>
DownloadPath(kind, ttl, stream) ==
    Cwd \o PrefixOf(kind) \o <<ttl, Dot(stream.subtype)>>

\* str.replace(old, new): every occurrence is replaced.
Replace(s, old, new) == [i \in DOMAIN s |-> IF s[i] = old THEN new ELSE s[i]]

\* out_file.replace(".mp4", f".{format_option}")
NewFilename(out, fmt) == Replace(out, Dot("mp4"), Dot(fmt))

\* os.path.basename: what follows the last separator.
Basename(p) ==
    LET seps == {i \in DOMAIN p : p[i] = "/"}
        last == IF seps = {} THEN 0 ELSE CHOOSE i \in seps : \A j \in seps : j <= i
    IN  SubSeq(p, last + 1, Len(p))

\* os.rename(src, dst) on a set of existing paths.
RenameCopies(d, src, dst) == d \cup {dst}
RenameFile(d, src, dst) == (d \ {src}) \cup {dst}

\* os.remove(path)
RemoveFile(d, path) == d \ {path}

\* `new_filename` in the finally block raises NameError when line 87/120
\* was never reached.
NameNeverUnbound(name) == FALSE
NameUnbound(name) == name = Unbound

(***************************************************************************)
(* History                                                                 *)
(***************************************************************************)
Entry(kind, ttl, fmt) == [type |-> kind, title |-> ttl, format |-> fmt]

\* st.session_state["history"][::-1]
NotReversed(h) == h
Reversed(h) == [i \in DOMAIN h |-> h[Len(h) + 1 - i]]

(***************************************************************************)
(* State                                                                   *)
(***************************************************************************)
VARIABLES
    history,       \* st.session_state["history"]
    disk,          \* paths that exist on local storage
    pc,            \* position of the current run in the script
    clicked,       \* the widget whose press caused this run
    title,         \* yt.title
    kind,          \* download_type
    controls,      \* the select boxes and the button were rendered
    noStreams,     \* the filtered stream list of this run was empty
    picked,        \* the stream whose option the user selected
    nmatch,        \* how many streams the label filter kept
    stream,        \* the stream the workflow resolved
    fmt,           \* format_option
    out_file,      \* out_file
    new_filename,  \* new_filename
    offered,       \* file_name of the st.download_button
    made,          \* paths holding an artifact created by this run
    raised,        \* the steps of this run that raised
    messages,      \* what the run showed with st.success / st.error
    displayed,     \* the history lines the run rendered
    rendered,      \* the history section and Clear History were rendered
    appended,      \* the run appended a history entry
    hist0,         \* the history list when the run started
    sinceClear,    \* entries appended since the list was last emptied
    wasCleared     \* Clear History emptied the list and nothing was appended since

persistent == <<history, disk, sinceClear, wasCleared>>
widgets == <<clicked, title, kind, controls, noStreams, picked, nmatch, stream, fmt>>
files == <<out_file, new_filename, offered, made>>
screen == <<raised, messages, displayed, rendered, appended, hist0>>
vars == <<persistent, pc, widgets, files, screen>>

Init ==
    /\ history = <<>>
    /\ disk = {}
    /\ sinceClear = 0
    /\ wasCleared = FALSE
    /\ pc = "idle"
    /\ clicked = "none"
    /\ title = ""
    /\ kind = ""
    /\ controls = FALSE
    /\ noStreams = FALSE
    /\ picked = NoStream
    /\ nmatch = 0
    /\ stream = NoStream
    /\ fmt = ""
    /\ out_file = Unbound
    /\ new_filename = Unbound
    /\ offered = Unbound
    /\ made = {}
    /\ raised = {}
    /\ messages = {}
    /\ displayed = <<>>
    /\ rendered = FALSE
    /\ appended = FALSE
    /\ hist0 = <<>>


(***************************************************************************)
(* A run of the script                                                     *)
(***************************************************************************)
Kept == Len(history) + Cardinality(disk)

\* A browser interaction re-executes the script (lines 33-41).  The press
\* of a button is the interaction; Clear History can be pressed only when
\* the list it stands under is not empty.
StartRun ==
    /\ pc = "idle"
    /\ \E c \in {"none", "download", "clear"} :
        /\ c = "download" => Kept < MaxKept
        /\ c = "clear" => history # <<>>
        /\ clicked' = c
    /\ hist0' = history
    /\ pc' = "fetch"
    /\ UNCHANGED <<persistent, title, kind, controls, noStreams, picked, nmatch,
                   stream, fmt, files, raised, messages, displayed, rendered,
                   appended>>

\* YouTube(url) and the preview (lines 46-64).
FetchOK ==
    /\ pc = "fetch"
    /\ title' \in Titles
    /\ pc' = "select"
    /\ UNCHANGED <<persistent, clicked, kind, controls, noStreams, picked, nmatch,
                   stream, fmt, files, screen>>

\* YouTube(url) raises; `except PytubeError` (lines 153-154).
FetchFails ==
    /\ pc = "fetch"
    /\ raised' = raised \cup {"fetch"}
    /\ messages' = messages \cup {"fetch_failed"}
    /\ pc' = "end"
    /\ UNCHANGED <<persistent, widgets, files, displayed, rendered, appended, hist0>>

\* The stream list of the chosen kind is empty (lines 104-105, 137-138).
NoStreams ==
    /\ pc = "select"
    /\ \E k \in DownloadTypes : \E s \in StreamLists(k) :
        /\ ~Truthy(s)
        /\ kind' = k
    /\ noStreams' = TRUE
    /\ messages' = messages \cup {"no_streams"}
    /\ pc' = "history"
    /\ UNCHANGED <<persistent, clicked, title, controls, picked, nmatch, stream,
                   fmt, files, raised, displayed, rendered, appended, hist0>>

\* The controls are rendered and the download button was not the widget
\* pressed (lines 77-82, 110-115).
RenderControls ==
    /\ pc = "select"
    /\ clicked # "download"
    /\ \E k \in DownloadTypes : \E s \in StreamLists(k) :
        /\ Truthy(s)
        /\ kind' = k
        /\ noStreams' = (s = <<>>)
    /\ controls' = TRUE
    /\ pc' = "history"
    /\ UNCHANGED <<persistent, clicked, title, picked, nmatch, stream, fmt, files,
                   screen>>

\* The controls are rendered, the download button was pressed, and the
\* workflow resolves the stream from the label of the selected option
\* (lines 77-85, 110-118).
Confirm ==
    /\ pc = "select"
    /\ clicked = "download"
    /\ \E k \in DownloadTypes : \E s \in StreamLists(k) :
        /\ Truthy(s)
        /\ \E i \in DOMAIN s : \E f \in FormatsOf(k) :
            LET selected == Options(s)[i]
                matching == FilterLabel(s, SelectedLabel(selected))
            IN  /\ kind' = k
                /\ noStreams' = (s = <<>>)
                /\ picked' = s[i]
                /\ nmatch' = Len(matching)
                /\ stream' = First(matching)
                /\ fmt' = f
    /\ controls' = TRUE
    /\ pc' = "download"
    /\ UNCHANGED <<persistent, clicked, title, files, screen>>

\* stream.download() (lines 86, 119).
DownloadOK ==
    /\ pc = "download"
    /\ stream # NoStream
    /\ out_file' = DownloadPath(kind, title, stream)
    /\ disk' = disk \cup {out_file'}
    /\ made' = {out_file'}
    /\ pc' = "rename"
    /\ UNCHANGED <<history, sinceClear, wasCleared, widgets, new_filename, offered, screen>>

\* stream.download() raises; `except Exception` (lines 98-100, 131-133).
DownloadFails ==
    /\ pc = "download"
    /\ raised' = raised \cup {"download"}
    /\ messages' = messages \cup {"download_error"}
    /\ pc' = "finally"
    /\ UNCHANGED <<persistent, widgets, files, displayed, rendered, appended, hist0>>

\* The target name and os.rename (lines 87-88, 120-121).
RenameOK ==
    /\ pc = "rename"
    /\ new_filename' = NewFilename(out_file, fmt)
    /\ disk' = RenameFile(disk, out_file, new_filename')
    /\ made' = RenameFile(made, out_file, new_filename')
    /\ pc' = "expose"
    /\ UNCHANGED <<history, sinceClear, wasCleared, widgets, out_file, offered, screen>>

\* os.rename raises after the target name was computed.
RenameFails ==
    /\ pc = "rename"
    /\ new_filename' = NewFilename(out_file, fmt)
    /\ raised' = raised \cup {"rename"}
    /\ messages' = messages \cup {"download_error"}
    /\ pc' = "finally"
    /\ UNCHANGED <<persistent, widgets, out_file, offered, made, displayed,
                   rendered, appended, hist0>>

\* open(), st.download_button and st.success (lines 89-96, 122-129).
ExposeOK ==
    /\ pc = "expose"
    /\ offered' = Basename(new_filename)
    /\ messages' = messages \cup {"success"}
    /\ pc' = "append"
    /\ UNCHANGED <<persistent, widgets, out_file, new_filename, made, raised,
                   displayed, rendered, appended, hist0>>

\* open() or st.download_button raises.
ExposeFails ==
    /\ pc = "expose"
    /\ raised' = raised \cup {"expose"}
    /\ messages' = messages \cup {"download_error"}
    /\ pc' = "finally"
    /\ UNCHANGED <<persistent, widgets, files, displayed, rendered, appended, hist0>>

\* st.session_state["history"].append(...) (lines 97, 130).
AppendHistory ==
    /\ pc = "append"
    /\ history' = Append(history, Entry(kind, title, fmt))
    /\ sinceClear' = sinceClear + 1
    /\ wasCleared' = FALSE
    /\ appended' = TRUE
    /\ pc' = "finally"
    /\ UNCHANGED <<disk, widgets, files, raised, messages, displayed, rendered, hist0>>

\* finally: `new_filename` is not bound; the NameError leaves the outer try.
FinallyNameError ==
    /\ pc = "finally"
    /\ NameUnbound(new_filename)
    /\ raised' = raised \cup {"nameerror"}
    /\ pc' = "handler"
    /\ UNCHANGED <<persistent, widgets, files, messages, displayed, rendered,
                   appended, hist0>>

\* finally: the file exists and is removed (lines 102-103, 135-136).
FinallyRemove ==
    /\ pc = "finally"
    /\ ~NameUnbound(new_filename)
    /\ new_filename \in disk
    /\ disk' = RemoveFile(disk, new_filename)
    /\ made' = RemoveFile(made, new_filename)
    /\ pc' = "history"
    /\ UNCHANGED <<history, sinceClear, wasCleared, widgets, out_file, new_filename, offered,
                   screen>>

\* finally: the file exists and os.remove raises.
FinallyRemoveFails ==
    /\ pc = "finally"
    /\ ~NameUnbound(new_filename)
    /\ new_filename \in disk
    /\ raised' = raised \cup {"remove"}
    /\ pc' = "handler"
    /\ UNCHANGED <<persistent, widgets, files, messages, displayed, rendered,
                   appended, hist0>>

\* finally: os.path.exists(new_filename) is false.
FinallySkip ==
    /\ pc = "finally"
    /\ ~NameUnbound(new_filename)
    /\ new_filename \notin disk
    /\ pc' = "history"
    /\ UNCHANGED <<persistent, widgets, files, screen>>

\* `if st.session_state["history"]:` is false (line 143).
HistoryEmpty ==
    /\ pc = "history"
    /\ history = <<>>
    /\ pc' = "end"
    /\ UNCHANGED <<persistent, widgets, files, screen>>

\* The history is listed and Clear History is rendered (lines 143-149).
HistoryRender ==
    /\ pc = "history"
    /\ history # <<>>
    /\ displayed' = Reversed(history)
    /\ rendered' = TRUE
    /\ pc' = IF clicked = "clear" THEN "clear" ELSE "end"
    /\ UNCHANGED <<persistent, widgets, files, raised, messages, appended, hist0>>

\* Clear History was pressed (lines 150-151).
ClearKeeps ==
    /\ pc = "clear"
    /\ messages' = messages \cup {"cleared"}
    /\ pc' = "end"
    /\ sinceClear' = 0
    /\ wasCleared' = TRUE
    /\ UNCHANGED <<history, disk, widgets, files, raised, displayed, rendered,
                   appended, hist0>>
ClearHistory ==
    /\ pc = "clear"
    /\ history' = <<>>
    /\ sinceClear' = 0
    /\ wasCleared' = TRUE
    /\ messages' = messages \cup {"cleared"}
    /\ pc' = "end"
    /\ UNCHANGED <<disk, widgets, files, raised, displayed, rendered, appended, hist0>>

\* `except Exception` of the outer try (lines 155-157).
TopHandler ==
    /\ pc = "handler"
    /\ messages' = messages \cup {"unexpected"}
    /\ pc' = "end"
    /\ UNCHANGED <<persistent, widgets, files, raised, displayed, rendered,
                   appended, hist0>>

\* The run is over: the script's names are gone, the page waits for the
\* next interaction.
EndRun ==
    /\ pc = "end"
    /\ pc' = "idle"
    /\ clicked' = "none"
    /\ title' = ""
    /\ kind' = ""
    /\ controls' = FALSE
    /\ noStreams' = FALSE
    /\ picked' = NoStream
    /\ nmatch' = 0
    /\ stream' = NoStream
    /\ fmt' = ""
    /\ out_file' = Unbound
    /\ new_filename' = Unbound
    /\ offered' = Unbound
    /\ made' = {}
    /\ raised' = {}
    /\ messages' = {}
    /\ displayed' = <<>>
    /\ rendered' = FALSE
    /\ appended' = FALSE
    /\ hist0' = <<>>
    /\ UNCHANGED persistent

Next ==
    \/ StartRun
    \/ FetchOK
    \/ FetchFails
    \/ NoStreams
    \/ RenderControls
    \/ Confirm
    \/ DownloadOK
    \/ DownloadFails
    \/ RenameOK
    \/ RenameFails
    \/ ExposeOK
    \/ ExposeFails
    \/ AppendHistory
    \/ FinallyNameError
    \/ FinallyRemove
    \/ FinallyRemoveFails
    \/ FinallySkip
    \/ HistoryEmpty
    \/ HistoryRender
    \/ ClearHistory
    \/ TopHandler
    \/ EndRun

Spec == Init /\ [][Next]_vars

(***************************************************************************)
(* Properties                                                              *)
(***************************************************************************)
\* The run pressed a download button and entered the workflow.
Confirmed == picked # NoStream

\* The run showed an error for the workflow.
FailureSurfaced == messages \cap {"download_error", "unexpected"} # {}

\* A file name with its extension replaced (os.path.splitext + new suffix).
SwapExtension(name, ext) == SubSeq(name, 1, Len(name) - 1) \o <<Dot(ext)>>

\* C1: a confirmed workflow that completes successfully appends exactly one
\* entry with the chosen kind and target extension, and a workflow that
\* surfaces a failure at any step (cleanup included) appends none.
C1_EntryIffSuccess ==
    (pc = "end" /\ Confirmed) =>
        IF FailureSurfaced
        THEN history = hist0
        ELSE history = Append(hist0, Entry(kind, title, fmt))

\* C2: once the target name was computed, at the end of the run no artifact
\* of the run remains, at the downloaded path or at the renamed path,
\* whether the run succeeded or the rename or the expose step raised.
C2_NoArtifactRemains ==
    (pc = "end" /\ new_filename # Unbound /\ "remove" \notin raised) =>
        /\ out_file \notin made
        /\ new_filename \notin made

\* C3: the file offered has the basename of the downloaded file with only
\* its extension replaced by the chosen target extension.
C3_OfferedNameSwapsExtension ==
    offered # Unbound => offered = SwapExtension(Basename(out_file), fmt)

\* C4: in a run whose filtered stream list is empty no selection control is
\* offered and no workflow step (fetch, rename, expose, cleanup, append)
\* occurs.
C4_NoStreamsNoWorkflow ==
    noStreams =>
        /\ ~controls
        /\ ~Confirmed
        /\ pc \in {"history", "clear", "end"}
        /\ out_file = Unbound /\ new_filename = Unbound /\ offered = Unbound
        /\ made = {}
        /\ ~appended

C4_Witness ==
    /\ noStreams
    /\ clicked = "download"
    /\ pc = "end"

\* C5: the history a run renders is the reverse of the order in which the
\* entries in the list were appended, the entry the same run appended
\* included (it is the first line).
C5_RenderedMostRecentFirst ==
    rendered =>
        LET listed == IF "cleared" \in messages THEN hist0 ELSE history
        IN  /\ Len(displayed) = Len(listed)
            /\ \A i \in DOMAIN listed : displayed[i] = listed[Len(listed) + 1 - i]
            /\ appended => displayed[1] = Entry(kind, title, fmt)

C5_Witness ==
    /\ rendered
    /\ appended
    /\ Len(displayed) >= 2
    /\ displayed[1] # displayed[2]

\* C6: Clear History empties the list; the runs after it render no history
\* until a workflow appends an entry, and the list only ever holds the
\* entries appended since the last clear.
C6_ClearEmptiesUntilAppend ==
    /\ Len(history) = sinceClear
    /\ wasCleared => history = <<>>
    /\ (wasCleared /\ "cleared" \notin messages) => (~rendered /\ displayed = <<>>)

C6_Witness ==
    /\ wasCleared
    /\ "cleared" \notin messages
    /\ pc = "end"
    /\ raised = {}

\* C7: at every point of a run at most one artifact of the run is on disk.
C7_AtMostOneArtifact ==
    /\ made \subseteq disk
    /\ Cardinality(made) <= 1

C7_Witness ==
    /\ pc = "expose"
    /\ new_filename # out_file
    /\ made = {new_filename}

\* C8: the label match keeps exactly one stream, and the stream resolved
\* for download is the one whose option the user selected.
C8_LabelSelectsPicked ==
    Confirmed => (nmatch = 1 /\ stream = picked)

\* C9: the artifact is removed before the history entry is appended; the
\* append is the last action of the invocation.
C9_CleanupBeforeAppend ==
    appended => made = {}

\* C10: when the workflow fails before the target name is computed, the
\* cleanup raises too, the top-level handler runs, the history section and
\* Clear History are not rendered, and the stored list is unchanged.
C10_EarlyFailureSkipsHistory ==
    (pc = "end" /\ Confirmed /\ new_filename = Unbound) =>
        /\ "nameerror" \in raised
        /\ "unexpected" \in messages
        /\ ~rendered
        /\ displayed = <<>>
        /\ history = hist0

C10_Witness ==
    /\ pc = "end"
    /\ "download" \in raised
    /\ new_filename = Unbound
    /\ hist0 # <<>>

=============================================================================
